---------------------------- MODULE Spec2Model ----------------------------
(***************************************************************************)
(* Model of enumerate.hpp: the enumeration adapter (Enumerator), its       *)
(* position-tracking cursor (Enumerator::Iterator), the Result pair        *)
(* (EnumeratedIteratorResult) with its structured-binding support, and     *)
(* the two enumerate() overloads.                                          *)
(*                                                                         *)
(* A container is a sequence of values; a container cursor                 *)
(* (Container::iterator / const_iterator) is an offset 0..Len from         *)
(* container.begin(), so container.end() is the offset Len and the element *)
(* a cursor at offset k refers to is container[k + 1].                     *)
(***************************************************************************)
EXTENDS Integers, Sequences, FiniteSets, TLC

\* Largest container size explored.
MaxLen == 3
\* Element values: two suffice to tell a written element from an unwritten one.
Values == {0, 1}
Containers == UNION {[1..n -> Values] : n \in 0..MaxLen}
Ids == {"a", "b"}
\* The caller's reference to a Result pair: `auto&` (FALSE) or `const auto&`.
Quals == BOOLEAN
\* How the caller reaches a field of the Result pair: the name a structured
\* binding introduces, a call of get<I>, or the public member.
Paths == {"binding", "get", "member"}

VARIABLES
    container,      \* the caller's container (the Enumerator's _container refers to it)
    containerConst, \* whether the caller's container reference is const
    enumerator,     \* the template arguments of the bound Enumerator
    cur,            \* the caller's Iterator objects, by name
    obs,            \* the (index, value) the caller last destructured from *it
    last,           \* the last operation the caller performed
    hist,           \* per cursor: where it came from and the advances since
    pc,             \* position of the range-for loop
    pass,           \* which enumeration of the container the loop is in
    yielded,        \* the (index, value) pairs the loop body has seen this pass
    written         \* the values the loop body wrote in the first pass

vars == <<container, containerConst, enumerator, cur, obs, last, hist,
          pc, pass, yielded, written>>

-----------------------------------------------------------------------------
(* EnumeratedIteratorResult and the Iterator                                *)

EnumeratedIteratorResult(index, value) == [index |-> index, value |-> value]

Iterator(containerIt, index) ==
    [_containerIt |-> containerIt,
     _index |-> index,
     _enumeratedValue |-> EnumeratedIteratorResult(index, containerIt)]

\* An Iterator name the caller has not initialised yet.
NoIter == [none |-> TRUE]
NoObs == <<>>

PreIncrement_StaleValue(it) ==
    [_containerIt |-> it._containerIt + 1,
     _index |-> it._index + 1,
     _enumeratedValue |-> [index |-> it._index + 1,
                           value |-> it._enumeratedValue.value]]

PreIncrement_StaleIndex(it) ==
    [_containerIt |-> it._containerIt + 1,
     _index |-> it._index + 1,
     _enumeratedValue |-> [index |-> it._enumeratedValue.index,
                           value |-> it._containerIt + 1]]

\* operator++(): the four assignments, in order.
PreIncrement(it) ==
    LET it1 == [it EXCEPT !._containerIt = @ + 1]
        it2 == [it1 EXCEPT !._index = @ + 1]
        it3 == [it2 EXCEPT !._enumeratedValue.index = it2._index]
    IN  [it3 EXCEPT !._enumeratedValue.value = it3._containerIt]

PostIncrement_ReturnsSelf(it) ==
    [ret |-> PreIncrement(it), self |-> PreIncrement(it)]

\* operator++(int): tmp is a copy of *this, *this is advanced, tmp returned.
PostIncrement(it) ==
    LET tmp == it
    IN  [ret |-> tmp, self |-> PreIncrement(it)]

\* operator==
IterEq(a, b) == a._containerIt = b._containerIt

IterNe_NoNegation(a, b) == IterEq(a, b)

\* operator!=
IterNe(a, b) == ~IterEq(a, b)

Deref_Advances(it) == PreIncrement(it)

\* operator*: the Iterator after the call (the call returns a reference to
\* its _enumeratedValue and assigns nothing).
Deref(it) == it

-----------------------------------------------------------------------------
(* Enumerator                                                               *)

begin_OneBased(c) == Iterator(0, 1)

\* Enumerator::begin
begin(c) == Iterator(0, 0)

end_IndexZero(c) == Iterator(Len(c), 0)

\* Enumerator::end
end(c) == Iterator(Len(c), Len(c))

EnumeratorType(containerConst_, valueConst, iteratorConst) ==
    [Container_const |-> containerConst_,
     ContainerValue_const |-> valueConst,
     ContainerIterator_const |-> iteratorConst]

enumerate_AlwaysMutable(isConst) == EnumeratorType(isConst, FALSE, FALSE)

\* Overload resolution between enumerate(Container&) and
\* enumerate(const Container&) on the constness of the caller's reference.
enumerate(isConst) ==
    IF isConst
    THEN EnumeratorType(TRUE, TRUE, TRUE)
    ELSE EnumeratorType(FALSE, FALSE, FALSE)

-----------------------------------------------------------------------------
(* Structured bindings: tuple_element, get                                  *)

\* Whether std::tuple_element<I, E>::type is const, E being the Result type
\* with the caller's cv-qualifier (eConst).
tuple_element_const(I, eConst, T) ==
    IF I = 0 THEN TRUE ELSE T.ContainerValue_const \/ eConst

\* Whether the reference get<I> returns is a reference to const: the
\* non-const overload returns auto& (index_type&, or what *value gives), the
\* const overload const auto&.
get_const(I, eConst, T) ==
    IF eConst THEN TRUE
    ELSE IF I = 0 THEN FALSE ELSE T.ContainerIterator_const

\* `auto& [index, value] = *it` (or const auto&) compiles: each name is a
\* reference to tuple_element<I, E>::type bound to get<I>(e).
BindingCompiles(eConst, T) ==
    \A I \in {0, 1} : get_const(I, eConst, T) => tuple_element_const(I, eConst, T)

\* Assigning to the I-th name of a structured binding compiles.
BindingAssignable(I, eConst, T) ==
    BindingCompiles(eConst, T) /\ ~tuple_element_const(I, eConst, T)

\* The values container cursor `off` can give when dereferenced: the element
\* it is at, or anything at all when it is not at an element.
ElementAt(c, off) ==
    IF off \in 0..(Len(c) - 1) THEN {c[off + 1]} ELSE Values

\* get<0>(e)
get0(e) == e.index

\* get<1>(e), read: *e.value
get1(e, c) == ElementAt(c, e.value)

assign1_NextSlot(e, c, w) ==
    IF e.value + 1 \in 0..(Len(c) - 1) THEN [c EXCEPT ![e.value + 2] = w] ELSE c

\* get<1>(e) = w: the container after a write through *e.value.  Callers
\* write only through a cursor that is at an element (AtElement).
assign1(e, c, w) ==
    IF e.value \in 0..(Len(c) - 1) THEN [c EXCEPT ![e.value + 1] = w] ELSE c

-----------------------------------------------------------------------------
(* Initial state                                                            *)

NoHist == [origin |-> "none", n |-> 0]
NoOp == [op |-> "none", id |-> "a", arg |-> 0]

InitCommon ==
    /\ container \in Containers
    /\ containerConst \in BOOLEAN
    /\ enumerator = enumerate(containerConst)
    /\ cur = [c \in Ids |-> NoIter]
    /\ obs = NoObs
    /\ last = NoOp
    /\ hist = [c \in Ids |-> NoHist]
    /\ pass = 1
    /\ yielded = <<>>
    /\ written = <<>>

-----------------------------------------------------------------------------
(* The range-for loop of the tests:                                         *)
(*   for (auto& [index, value] : enumerate(c)) { value = w; }               *)
(*   for (const auto& [index, value] : enumerate(c_as_const)) { }           *)
(* __begin is cur["a"], __end is cur["b"].                                  *)

LoopInit == InitCommon /\ pc = "start"

LoopBegin ==
    /\ pc = "start"
    /\ cur' = [a |-> begin(container), b |-> end(container)]
    /\ yielded' = <<>>
    /\ pc' = "test"
    /\ UNCHANGED <<container, containerConst, enumerator, obs, last, hist,
                   pass, written>>

LoopTest ==
    /\ pc = "test"
    /\ pc' = IF IterNe(cur["a"], cur["b"]) THEN "body" ELSE "done"
    /\ UNCHANGED <<container, containerConst, enumerator, cur, obs, last,
                   hist, pass, yielded, written>>

\* The body destructures *__begin; in the first pass over a mutable binding
\* it then writes a value through `value`.
LoopBody ==
    /\ pc = "body"
    /\ LET it == Deref(cur["a"])
           e == it._enumeratedValue
           q == (pass = 2)
       IN  /\ BindingCompiles(q, enumerator)
           /\ \E v \in get1(e, container) :
                /\ obs' = <<get0(e), v>>
                /\ yielded' = Append(yielded, <<get0(e), v>>)
           /\ cur' = [cur EXCEPT !["a"] = it]
           /\ IF pass = 1 /\ BindingAssignable(1, q, enumerator)
              THEN \E w \in Values :
                     /\ container' = assign1(e, container, w)
                     /\ written' = Append(written, w)
              ELSE UNCHANGED <<container, written>>
    /\ pc' = "incr"
    /\ UNCHANGED <<containerConst, enumerator, last, hist, pass>>

LoopIncr ==
    /\ pc = "incr"
    /\ cur["a"]._containerIt <= Len(container)
    /\ cur' = [cur EXCEPT !["a"] = PreIncrement(cur["a"])]
    /\ pc' = "test"
    /\ UNCHANGED <<container, containerConst, enumerator, obs, last, hist,
                   pass, yielded, written>>

\* The second enumeration binds the container through a const reference.
LoopAgain ==
    /\ pc = "done"
    /\ pass = 1
    /\ pass' = 2
    /\ containerConst' = TRUE
    /\ enumerator' = enumerate(TRUE)
    /\ pc' = "start"
    /\ UNCHANGED <<container, cur, obs, last, hist, yielded, written>>

LoopNext == LoopBegin \/ LoopTest \/ LoopBody \/ LoopIncr \/ LoopAgain

\* The loop is sequential code that runs to completion.
LoopSpec == LoopInit /\ [][LoopNext]_vars /\ WF_vars(LoopNext)

-----------------------------------------------------------------------------
(* A caller using the cursors freely: begin(), end(), ++, ==, * and the     *)
(* element reached through the Result pair.                                 *)

Init == InitCommon /\ pc = "free"

Op(op, c, arg) == [op |-> op, id |-> c, arg |-> arg]
Other(c) == IF c = "a" THEN "b" ELSE "a"

\* The cursor is at an element: ++ and * are legal.
AtElement(c) ==
    /\ cur[c] # NoIter
    /\ cur[c]._containerIt \in 0..(Len(container) - 1)

\* Assigning through field 1 of the Result pair (the element) compiles.
ElementAssignable(path, eConst, T) ==
    CASE path = "binding" -> BindingAssignable(1, eConst, T)
      [] path = "get" -> ~get_const(1, eConst, T)
      [] path = "member" -> ~T.ContainerIterator_const

\* Assigning to field 0 of the Result pair (the position) compiles.
IndexAssignable(path, eConst, T) ==
    CASE path = "binding" -> BindingAssignable(0, eConst, T)
      [] path = "get" -> ~get_const(0, eConst, T)
      [] path = "member" -> ~eConst

Begin(c) ==
    /\ cur' = [cur EXCEPT ![c] = begin(container)]
    /\ hist' = [hist EXCEPT ![c] = [origin |-> "begin", n |-> 0]]
    /\ last' = Op("begin", c, 0)
    /\ UNCHANGED <<container, containerConst, enumerator, obs, pc, pass,
                   yielded, written>>

End(c) ==
    /\ cur' = [cur EXCEPT ![c] = end(container)]
    /\ hist' = [hist EXCEPT ![c] = [origin |-> "end", n |-> 0]]
    /\ last' = Op("end", c, 0)
    /\ UNCHANGED <<container, containerConst, enumerator, obs, pc, pass,
                   yielded, written>>

Advance(c) ==
    /\ AtElement(c)
    /\ cur' = [cur EXCEPT ![c] = PreIncrement(cur[c])]
    /\ hist' = [hist EXCEPT ![c].n = @ + 1]
    /\ last' = Op("advance", c, 0)
    /\ UNCHANGED <<container, containerConst, enumerator, obs, pc, pass,
                   yielded, written>>

\* d = c++, d being the caller's other Iterator name.
PostInc(c) ==
    /\ AtElement(c)
    /\ LET r == PostIncrement(cur[c])
       IN  cur' = [cur EXCEPT ![Other(c)] = r.ret, ![c] = r.self]
    /\ hist' = [hist EXCEPT ![Other(c)] = hist[c], ![c].n = @ + 1]
    /\ last' = Op("postinc", c, cur[c]._enumeratedValue.index)
    /\ UNCHANGED <<container, containerConst, enumerator, obs, pc, pass,
                   yielded, written>>

\* c == d and c != d
Compare(c) ==
    /\ cur[c] # NoIter
    /\ cur[Other(c)] # NoIter
    /\ last' = Op("eq", c, IF IterEq(cur[c], cur[Other(c)]) THEN 1 ELSE 0)
    /\ UNCHANGED <<container, containerConst, enumerator, cur, obs, hist, pc,
                   pass, yielded, written>>

\* auto& [index, value] = *c (or const auto&), both names read.  last.arg
\* tells whether the call follows another *c directly.
Current(c, q) ==
    /\ AtElement(c)
    /\ BindingCompiles(q, enumerator)
    /\ LET it == Deref(cur[c])
           e == it._enumeratedValue
       IN  /\ \E v \in get1(e, container) : obs' = <<get0(e), v>>
           /\ cur' = [cur EXCEPT ![c] = it]
    /\ last' = Op("current", c,
                  IF last.op = "current" /\ last.id = c THEN 1 ELSE 0)
    /\ UNCHANGED <<container, containerConst, enumerator, hist, pc, pass,
                   yielded, written>>

\* The element of *c assigned through the given path.
Write(c, path, q, w) ==
    /\ AtElement(c)
    /\ ElementAssignable(path, q, enumerator)
    /\ LET it == Deref(cur[c])
           e == it._enumeratedValue
       IN  /\ container' = assign1(e, container, w)
           /\ cur' = [cur EXCEPT ![c] = it]
           /\ last' = Op("write", c, get0(e))
    /\ UNCHANGED <<containerConst, enumerator, obs, hist, pc, pass, yielded,
                   written>>

Next ==
    \E c \in Ids :
        \/ Begin(c)
        \/ End(c)
        \/ Advance(c)
        \/ PostInc(c)
        \/ Compare(c)
        \/ \E q \in Quals : Current(c, q)
        \/ \E path \in Paths, q \in Quals, w \in Values : Write(c, path, q, w)

Spec == Init /\ [][Next]_vars

-----------------------------------------------------------------------------
(* A caller that also assigns to the fields of the Result pair it got from  *)
(* *it: the position (field 0) and the element-handle itself (member        *)
(* `value`).  One cursor is enough here.                                    *)

\* Field 0 of *c assigned n through the given path.
SetIndex(c, path, q, n) ==
    /\ AtElement(c)
    /\ IndexAssignable(path, q, enumerator)
    /\ cur' = [cur EXCEPT ![c] = [Deref(cur[c]) EXCEPT !._enumeratedValue.index = n]]
    /\ last' = Op("setindex", c, n)
    /\ UNCHANGED <<container, containerConst, enumerator, obs, hist, pc, pass,
                   yielded, written>>

\* (*c).value = container.begin() + off
SetValue(c, q, off) ==
    /\ AtElement(c)
    /\ ~q
    /\ cur' = [cur EXCEPT ![c] = [Deref(cur[c]) EXCEPT !._enumeratedValue.value = off]]
    /\ last' = Op("setvalue", c, off)
    /\ UNCHANGED <<container, containerConst, enumerator, obs, hist, pc, pass,
                   yielded, written>>

FieldsNext ==
    \/ Begin("a")
    \/ End("a")
    \/ Advance("a")
    \/ \E q \in Quals : Current("a", q)
    \/ \E path \in Paths, q \in Quals, w \in Values : Write("a", path, q, w)
    \/ \E path \in Paths, q \in Quals, n \in 0..Len(container) :
          SetIndex("a", path, q, n)
    \/ \E q \in Quals, off \in 0..(Len(container) - 1) : SetValue("a", q, off)

SpecFields == Init /\ [][FieldsNext]_vars

-----------------------------------------------------------------------------
(* Properties                                                               *)

N == Len(container)

\* The cursor reached from `it` by k advances.
RECURSIVE AdvanceTimes(_, _)
AdvanceTimes(it, k) == IF k = 0 THEN it ELSE AdvanceTimes(PreIncrement(it), k - 1)

\* The positions yielded so far are 0, 1, 2, ... in that order.
PositionsAscending == \A i \in 1..Len(yielded) : yielded[i][1] = i - 1

C1_Safety ==
    (containerConst /\ pc # "start") =>
        /\ PositionsAscending
        /\ Len(yielded) <= N
        /\ (pc = "done" => Len(yielded) = N)

\* C1: over a read-only binding the loop `for (it = begin(); it != end();
\* ++it)` ends after exactly N steps, and the positions *it yielded are
\* exactly 0, 1, ..., N-1 in ascending order.
C1_ReadOnlyEnumeration ==
    /\ [](C1_Safety)
    /\ [](containerConst /\ pc = "start" =>
            <>(pc = "done" /\ Len(yielded) = N /\ PositionsAscending))

C1_Witness ==
    /\ containerConst
    /\ pc = "done"
    /\ N >= 2
    /\ yielded[N][1] = N - 1

\* C2: after a full enumeration over a mutable binding in which the caller
\* wrote w(i) through the element yielded at each position i, the container
\* holds w(i) at index i, the positions seen while writing were 0..N-1, and
\* enumerating again yields exactly the pairs (i, w(i)).
C2_WriteThenRead ==
    /\ (pass = 1 /\ ~containerConst /\ pc # "start") =>
          /\ PositionsAscending
          /\ Len(written) = Len(yielded)
          /\ \A i \in 1..Len(written) : container[i] = written[i]
          /\ (pc = "done" => Len(written) = N)
    /\ (pass = 2 /\ pc # "start" /\ Len(written) = N) =>
          /\ \A i \in 1..N : container[i] = written[i]
          /\ \A i \in 1..Len(yielded) : yielded[i] = <<i - 1, written[i]>>
          /\ (pc = "done" => Len(yielded) = N)

C2_Witness ==
    /\ pass = 2
    /\ pc = "done"
    /\ N >= 2
    /\ Len(written) = N
    /\ written[1] # written[2]
    /\ yielded[2] = <<1, written[2]>>

\* C3: for an empty container begin() and end() compare equal at once, the
\* loop never enters its body and no Result pair is yielded to the caller.
C3_EmptyContainer ==
    N = 0 =>
        /\ cur["a"] # NoIter => (IterEq(cur["a"], cur["b"]) /\ ~IterNe(cur["a"], cur["b"]))
        /\ pc \notin {"body", "incr"}
        /\ yielded = <<>>
        /\ obs = NoObs

C3_Witness == N = 0 /\ pc = "done" /\ pass = 2 /\ cur["a"] = begin(container)

Live == {c \in Ids : cur[c] # NoIter}

\* C4: two cursors of one adapter compare equal exactly when their container
\* cursors are equal, and then their position counters are equal too; a
\* cursor advanced N times from begin() equals end(), both with position
\* counter N, and one advanced k < N times does not equal end().
C4_CursorEquality ==
    /\ \A c, d \in Live :
          /\ IterEq(cur[c], cur[d]) <=> (cur[c]._containerIt = cur[d]._containerIt)
          /\ IterNe(cur[c], cur[d]) <=> ~IterEq(cur[c], cur[d])
          /\ IterEq(cur[c], cur[d]) => cur[c]._index = cur[d]._index
    /\ \A c \in Live :
          /\ IterEq(cur[c], end(container)) => cur[c]._index = end(container)._index
          /\ end(container)._index = N
          /\ hist[c].origin = "begin" =>
                (IterEq(cur[c], end(container)) <=> hist[c].n = N)
          /\ hist[c].origin = "begin" =>
                cur[c] = AdvanceTimes(begin(container), hist[c].n)
    /\ last.op = "eq" =>
          (last.arg = 1 => cur[last.id]._index = cur[Other(last.id)]._index)

C4_Witness ==
    /\ N >= 2
    /\ Live = Ids
    /\ hist["a"] = [origin |-> "begin", n |-> N]
    /\ hist["b"].origin = "end"
    /\ last = Op("eq", "a", 1)

\* C5: operator* called twice in a row with no advance in between gives the
\* same (position, element) both times and leaves the cursor (container
\* cursor, position counter, held Result pair) as it was.
C5_CurrentIdempotent ==
    [][(last'.op = "current" /\ last'.arg = 1) => (obs' = obs /\ cur' = cur)]_vars

C5_Witness ==
    /\ N >= 2
    /\ last.op = "current"
    /\ last.arg = 1
    /\ obs = <<1, container[2]>>

\* C6: the caller cannot change the position through the Result pair, by
\* structural position or by name: the position a Result pair shows is
\* always the one its cursor set.
C6_PositionReadOnly ==
    \A c \in Live : cur[c]._enumeratedValue.index = cur[c]._index

\* C7: over a read-only binding every write through an element-handle is
\* rejected at compile time, and no operation on the adapter, its cursors
\* or its Result pairs changes an element of the container.
C7_ReadOnlyBinding ==
    [][containerConst =>
          /\ \A path \in Paths, q \in Quals : ~ElementAssignable(path, q, enumerator)
          /\ container' = container]_vars

C7_Witness ==
    /\ containerConst
    /\ N >= 2
    /\ last.op = "setvalue"
    /\ cur["a"]._enumeratedValue.value # cur["a"]._containerIt

\* C8: a cursor that is k advances away from begin() has position counter
\* k, its container cursor at offset k, and a Result pair holding position
\* k and that container cursor; for k < N operator* yields position k and
\* the element at index k.
C8_Lockstep ==
    \A c \in Live :
        hist[c].origin = "begin" =>
            LET k == hist[c].n
                it == cur[c]
                e == Deref(it)._enumeratedValue
            IN  /\ k \in 0..N
                /\ it._index = k
                /\ it._containerIt = k
                /\ it._enumeratedValue.index = k
                /\ it._enumeratedValue.value = it._containerIt
                /\ k < N => (get0(e) = k /\ get1(e, container) = {container[k + 1]})

C8_Witness ==
    /\ hist["a"] = [origin |-> "begin", n |-> 2]
    /\ last = Op("advance", "a", 0)
    /\ N > 2

\* C9: enumerate, begin(), end(), ++, ==, != and * leave the container's
\* contents and size alone; the container changes only by a caller's write
\* through a mutable element-handle, and a write through the handle yielded
\* at position i changes element i only and no cursor's position.
C9_Frame ==
    [][/\ Len(container') = Len(container)
       /\ enumerator' = enumerator
       /\ last'.op # "write" => container' = container
       /\ last'.op = "write" =>
            /\ ~containerConst
            /\ \A j \in 1..Len(container) :
                  j # last'.arg + 1 => container'[j] = container[j]
            /\ \E w \in Values :
                  container' = [container EXCEPT ![last'.arg + 1] = w]
            /\ cur' = cur]_vars

C9_Witness ==
    /\ N >= 2
    /\ last.op = "write"
    /\ last.arg = 1
    /\ container[1] # container[2]
    /\ Live = Ids

\* C10: d = c++ on a cursor at element k leaves in d a snapshot that still
\* yields (k, element k) and equals a cursor advanced k times from begin(),
\* while c now yields (k+1, element k+1) or equals end(); advancing one of
\* two cursors afterwards changes nothing of the other.
C10_PostIncrement ==
    [][/\ last'.op = "postinc" =>
            LET c == last'.id
                d == Other(last'.id)
                k == last'.arg
            IN  /\ cur'[d] = cur[c]
                /\ get0(Deref(cur'[d])._enumeratedValue) = k
                /\ get1(Deref(cur'[d])._enumeratedValue, container') = {container'[k + 1]}
                /\ IterEq(cur'[d], AdvanceTimes(begin(container'), k))
                /\ cur'[d] = AdvanceTimes(begin(container'), k)
                /\ IF k + 1 < Len(container')
                   THEN /\ get0(Deref(cur'[c])._enumeratedValue) = k + 1
                        /\ get1(Deref(cur'[c])._enumeratedValue, container')
                              = {container'[k + 2]}
                   ELSE IterEq(cur'[c], end(container'))
       /\ last'.op = "advance" =>
            cur'[Other(last'.id)] = cur[Other(last'.id)]]_vars

C10_Witness ==
    /\ last = Op("postinc", "a", 1)
    /\ cur["b"]._enumeratedValue.index = 1
    /\ cur["a"]._enumeratedValue.index = 2
    /\ N > 2

=============================================================================
